---------------------------- MODULE Spec2Model ----------------------------
(***************************************************************************)
(* MGD (Modele Generatif Dialectique): the class MGDMoteur of              *)
(* src/mgd_engine.py (v1.1) and src/mgd_engine_v1.2.py (v1.2).             *)
(*                                                                         *)
(* Four specifications share the module:                                   *)
(*   Spec         generer_hybridations of v1.1, then of v1.2, on the same  *)
(*                max_iterations; list(etats) yields one fixed order.      *)
(*   SpecOrdre    the same two calls, list(etats) yielding any order.      *)
(*   SpecAlgebre  resolution of v1.1 and v1.2 applied (twice) to a triple. *)
(*   SpecCube     analyser_cube_27 of v1.1, then of v1.2.                  *)
(*                                                                         *)
(* The two engines share no state; a comparison of their results runs one  *)
(* call after the other on the same argument.                              *)
(*                                                                         *)
(* Names are those of v1.2 (etats, historique, nouveaux, stable); v1.1     *)
(* calls them all_states, history, new_states, resolved.                   *)
(* src/mgd_engine_v1.2.py indents with U+00A0; it is read here as the same *)
(* text indented with spaces.                                              *)
(***************************************************************************)
EXTENDS Integers, Sequences, FiniteSets

(***************************************************************************)
(* Bounds of the model.                                                    *)
(***************************************************************************)
\* largest max_iterations explored with the fixed list order
MaxIter == 3
\* most negative max_iterations explored is -MaxNeg
MaxNeg == 1
\* largest max_iterations explored with every list order
MaxOrderIter == 1
\* components of the triples given to resolution range over -MaxComp..MaxComp
MaxComp == 2

Versions == {"v11", "v12"}

VARIABLES
    \* ---- generer_hybridations
    max_iterations, \* the argument of the call
    moteur,         \* the engine version whose call is running
    pc,             \* position in the running call
    iteration,      \* number of loop passes completed (the next value of `iteration`)
    etats,          \* etats / all_states
    historique,     \* historique / history
    nouveaux,       \* nouveaux / new_states
    reste,          \* elements of liste_etats after position i
    s1,             \* s1, the element at position i
    suite,          \* elements of liste_etats[i:] the inner loop has not visited
    s2,             \* s2
    hybrid,         \* hybrid
    stable,         \* stable / resolved
    retour,         \* per version, the value the call returned
    \* ---- resolution
    v,              \* the argument of resolution
    sigma,          \* per version, resolution(v)
    sigma2,         \* per version, resolution(resolution(v))
    \* ---- analyser_cube_27
    cube,           \* cube
    p1,             \* index of p1 in cube
    p2,             \* index of p2 in cube
    ancrages_valides, \* ancrages_valides / valid_anchors
    total_paires,   \* total_paires / total_pairs
    stats           \* per version, the dictionary returned

varsFermeture == <<max_iterations, moteur, pc, iteration, etats, historique,
                   nouveaux, reste, s1, suite, s2, hybrid, stable, retour>>
varsAlgebre == <<v, sigma, sigma2>>
varsCube == <<cube, p1, p2, ancrages_valides, total_paires, stats>>
vars == <<varsFermeture, varsAlgebre, varsCube>>

\* a local variable that has not been assigned
Nul == <<>>

(***************************************************************************)
(* The three base states set by __init__.                                  *)
(***************************************************************************)
M_THESE == <<1, 0, 0>>
M_ANTITHESE == <<0, 1, 0>>
M_SYNTHESE == <<0, 0, 1>>

(***************************************************************************)
(* Vector algebra.                                                         *)
(***************************************************************************)
\* return s >= (t + a)
verifier_axiome(t, a, s) == s >= (t + a)

\* return self.verifier_axiome(*v)
est_equilibre(w) == verifier_axiome(w[1], w[2], w[3])

\* mutant: the synthesis weight is taken twice from v1
hybridation_s_de_v1(v1, v2) == <<v1[1] + v2[1], v1[2] + v2[2], v1[3] + v1[3]>>

\* tuple(x + y for x, y in zip(v1, v2)), on triples
hybridation(v1, v2) == <<v1[1] + v2[1], v1[2] + v2[2], v1[3] + v2[3]>>

\* Python's max of two integers
max(x, y) == IF x >= y THEN x ELSE y

\* mutant: the synthesis weight and its minimum are added
resolution_v11_somme(w) == <<w[1], w[2], w[3] + (w[1] + w[2])>>

\* v1.1: t, a, s = v; s_min = t + a; return (t, a, max(s, s_min))
resolution_v11(w) ==
    LET t == w[1]
        a == w[2]
        s == w[3]
        s_min == t + a
    IN  <<t, a, max(s, s_min)>>

\* mutant: the short-circuit compares s with t alone
resolution_v12_sans_a(w) ==
    IF w[3] >= w[1] THEN w ELSE <<w[1], w[2], w[1] + w[2]>>

\* mutant: no short-circuit, s is always replaced
resolution_v12_sans_court_circuit(w) == <<w[1], w[2], w[1] + w[2]>>

\* v1.2: t, a, s = v; s_equilibre = t + a
\*       if s >= s_equilibre: return v
\*       return (t, a, s_equilibre)
resolution_v12(w) ==
    LET t == w[1]
        a == w[2]
        s == w[3]
        s_equilibre == t + a
    IN  IF s >= s_equilibre THEN w ELSE <<t, a, s_equilibre>>

\* self.resolution of the engine of version ver
resolution(ver, w) == IF ver = "v11" THEN resolution_v11(w) ELSE resolution_v12(w)

(***************************************************************************)
(* generer_hybridations.                                                   *)
(*                                                                         *)
(* liste_etats = list(etats) fixes an order of the known states; the outer *)
(* loop takes s1 at position i and the inner loop pairs it with every      *)
(* element of liste_etats[i:], s1 itself first.  The list is kept as the   *)
(* two sets the loops still have to go through: reste (the elements after  *)
(* position i) and suite (the elements of liste_etats[i:] not yet          *)
(* visited).  The order of the list is the order in which the elements are *)
(* drawn from these sets.  Every state reached this way is a state of a    *)
(* run over some list: the rows done, then s1, then the partners visited,  *)
(* then the others.                                                        *)
(***************************************************************************)
\* the value returned by a call that has not returned
PasRendu == [rendu |-> FALSE, historique |-> <<>>, etats |-> {}]

\* etats = {self.M_THESE, self.M_ANTITHESE, self.M_SYNTHESE}
EtatsDeBase == {M_THESE, M_ANTITHESE, M_SYNTHESE}

\* the first element of list(S) in the fixed order of Spec
Premier(S) == CHOOSE x \in S : TRUE

\* mutant: one pass too many
range_hors_borne(k, n) == k <= n

\* mutant: the budget is taken in absolute value
range_valeur_absolue(k, n) == k < (IF n < 0 THEN 0 - n ELSE n)

\* for iteration in range(max_iterations): is there a further pass
range_a_un_suivant(k, n) == k < n

\* mutant: the test is inverted
dans_etats(w, connus) == w \in connus

\* if stable not in etats
pas_dans_etats(w, connus) == w \notin connus

\* the call: etats and historique are initialised
Appel ==
    /\ pc = "pret"
    /\ etats' = EtatsDeBase
    /\ historique' = <<>>
    /\ iteration' = 0
    /\ pc' = "for"
    /\ UNCHANGED <<max_iterations, moteur, nouveaux, reste, s1, suite, s2,
                   hybrid, stable, retour>>

\* a pass of the for loop begins: nouveaux = set(); liste_etats = list(etats)
DebutIteration ==
    /\ pc = "for"
    /\ range_a_un_suivant(iteration, max_iterations)
    /\ nouveaux' = {}
    /\ reste' = etats
    /\ pc' = "rangee"
    /\ UNCHANGED <<max_iterations, moteur, iteration, etats, historique, s1,
                   suite, s2, hybrid, stable, retour>>

\* range(max_iterations) is exhausted: the loop ends
FinBoucle ==
    /\ pc = "for"
    /\ ~ range_a_un_suivant(iteration, max_iterations)
    /\ pc' = "return"
    /\ UNCHANGED <<max_iterations, moteur, iteration, etats, historique,
                   nouveaux, reste, s1, suite, s2, hybrid, stable, retour>>

\* for i, s1 in enumerate(liste_etats): the next s1 is x
RangeeSuivante(x) ==
    /\ pc = "rangee"
    /\ x \in reste
    /\ s1' = x
    /\ suite' = reste
    /\ reste' = reste \ {x}
    /\ pc' = "paire"
    /\ UNCHANGED <<max_iterations, moteur, iteration, etats, historique,
                   nouveaux, s2, hybrid, stable, retour>>

\* the outer loop is exhausted
FinRangees ==
    /\ pc = "rangee"
    /\ reste = {}
    /\ pc' = "fin"
    /\ UNCHANGED <<max_iterations, moteur, iteration, etats, historique,
                   nouveaux, reste, s1, suite, s2, hybrid, stable, retour>>

\* for s2 in liste_etats[i:]: the next s2 is y (s1 itself on the first pass);
\* hybrid = self.hybridation(s1, s2)
PaireSuivante(y) ==
    /\ pc = "paire"
    /\ y \in suite
    /\ s1 \in suite => y = s1
    /\ s2' = y
    /\ suite' = suite \ {y}
    /\ hybrid' = hybridation(s1, y)
    /\ pc' = "resoudre"
    /\ UNCHANGED <<max_iterations, moteur, iteration, etats, historique,
                   nouveaux, reste, s1, stable, retour>>

\* the inner loop is exhausted
FinPaires ==
    /\ pc = "paire"
    /\ suite = {}
    /\ pc' = "rangee"
    /\ UNCHANGED <<max_iterations, moteur, iteration, etats, historique,
                   nouveaux, reste, s1, suite, s2, hybrid, stable, retour>>

\* stable = self.resolution(hybrid)
Resoudre ==
    /\ pc = "resoudre"
    /\ stable' = resolution(moteur, hybrid)
    /\ pc' = "tester"
    /\ UNCHANGED <<max_iterations, moteur, iteration, etats, historique,
                   nouveaux, reste, s1, suite, s2, hybrid, retour>>

\* if stable not in etats: nouveaux.add(stable)
Tester ==
    /\ pc = "tester"
    /\ nouveaux' = IF pas_dans_etats(stable, etats)
                   THEN nouveaux \cup {stable}
                   ELSE nouveaux
    /\ pc' = "paire"
    /\ UNCHANGED <<max_iterations, moteur, iteration, etats, historique,
                   reste, s1, suite, s2, hybrid, stable, retour>>

\* v1.1, after the scan:
\*   all_states.update(new_states); history.append(len(new_states))
\*   if len(new_states) == 0: break
FinIteration_v11 ==
    /\ pc = "fin"
    /\ moteur = "v11"
    /\ etats' = etats \cup nouveaux
    /\ historique' = Append(historique, Cardinality(nouveaux))
    /\ IF Cardinality(nouveaux) = 0
       THEN pc' = "return" /\ iteration' = iteration
       ELSE pc' = "for" /\ iteration' = iteration + 1
    /\ UNCHANGED <<max_iterations, moteur, nouveaux, reste, s1, suite, s2,
                   hybrid, stable, retour>>

\* mutant: the known set is replaced by the new states
FinIteration_v12_remplace ==
    /\ pc = "fin"
    /\ moteur = "v12"
    /\ IF nouveaux = {}
       THEN /\ pc' = "return"
            /\ UNCHANGED <<etats, historique, iteration>>
       ELSE /\ etats' = nouveaux
            /\ historique' = Append(historique, Cardinality(nouveaux))
            /\ iteration' = iteration + 1
            /\ pc' = "for"
    /\ UNCHANGED <<max_iterations, moteur, nouveaux, reste, s1, suite, s2,
                   hybrid, stable, retour>>

\* v1.2, after the scan:
\*   if not nouveaux: break
\*   etats.update(nouveaux); historique.append(len(nouveaux))
FinIteration_v12 ==
    /\ pc = "fin"
    /\ moteur = "v12"
    /\ IF nouveaux = {}
       THEN /\ pc' = "return"
            /\ UNCHANGED <<etats, historique, iteration>>
       ELSE /\ etats' = etats \cup nouveaux
            /\ historique' = Append(historique, Cardinality(nouveaux))
            /\ iteration' = iteration + 1
            /\ pc' = "for"
    /\ UNCHANGED <<max_iterations, moteur, nouveaux, reste, s1, suite, s2,
                   hybrid, stable, retour>>

\* return historique, etats; the call of the other engine comes next
Retourner ==
    /\ pc = "return"
    /\ retour' = [retour EXCEPT ![moteur] =
                     [rendu |-> TRUE, historique |-> historique, etats |-> etats]]
    /\ IF moteur = "v11"
       THEN moteur' = "v12" /\ pc' = "pret"
       ELSE moteur' = moteur /\ pc' = "termine"
    /\ UNCHANGED <<max_iterations, iteration, etats, historique, nouveaux,
                   reste, s1, suite, s2, hybrid, stable>>

\* the state before the first call, for the argument n
DepartFermeture(n) ==
    /\ max_iterations = n
    /\ moteur = "v11"
    /\ pc = "pret"
    /\ iteration = 0
    /\ etats = {}
    /\ historique = <<>>
    /\ nouveaux = {}
    /\ reste = {}
    /\ s1 = Nul
    /\ suite = {}
    /\ s2 = Nul
    /\ hybrid = Nul
    /\ stable = Nul
    /\ retour = [ver \in Versions |-> PasRendu]

AlgebreAuRepos ==
    /\ v = Nul
    /\ sigma = [ver \in Versions |-> Nul]
    /\ sigma2 = [ver \in Versions |-> Nul]

CubeAuRepos ==
    /\ cube = <<>>
    /\ p1 = 0
    /\ p2 = 0
    /\ ancrages_valides = 0
    /\ total_paires = 0
    /\ stats = [ver \in Versions |-> [rendu |-> FALSE]]

Init ==
    /\ \E n \in (0 - MaxNeg)..MaxIter : DepartFermeture(n)
    /\ AlgebreAuRepos
    /\ CubeAuRepos

Next ==
    \/ Appel /\ UNCHANGED <<varsAlgebre, varsCube>>
    \/ DebutIteration /\ UNCHANGED <<varsAlgebre, varsCube>>
    \/ FinBoucle /\ UNCHANGED <<varsAlgebre, varsCube>>
    \/ (reste # {} /\ RangeeSuivante(Premier(reste))) /\ UNCHANGED <<varsAlgebre, varsCube>>
    \/ FinRangees /\ UNCHANGED <<varsAlgebre, varsCube>>
    \/ (suite # {} /\ PaireSuivante(IF s1 \in suite THEN s1 ELSE Premier(suite)))
          /\ UNCHANGED <<varsAlgebre, varsCube>>
    \/ FinPaires /\ UNCHANGED <<varsAlgebre, varsCube>>
    \/ Resoudre /\ UNCHANGED <<varsAlgebre, varsCube>>
    \/ Tester /\ UNCHANGED <<varsAlgebre, varsCube>>
    \/ FinIteration_v11 /\ UNCHANGED <<varsAlgebre, varsCube>>
    \/ FinIteration_v12 /\ UNCHANGED <<varsAlgebre, varsCube>>
    \/ Retourner /\ UNCHANGED <<varsAlgebre, varsCube>>

Spec == Init /\ [][Next]_vars

(***************************************************************************)
(* The same calls, list(etats) yielding the known states in any order.     *)
(***************************************************************************)
InitOrdre ==
    /\ \E n \in 0..MaxOrderIter : DepartFermeture(n)
    /\ AlgebreAuRepos
    /\ CubeAuRepos

NextOrdre ==
    \/ Appel /\ UNCHANGED <<varsAlgebre, varsCube>>
    \/ DebutIteration /\ UNCHANGED <<varsAlgebre, varsCube>>
    \/ FinBoucle /\ UNCHANGED <<varsAlgebre, varsCube>>
    \/ (\E x \in reste : RangeeSuivante(x)) /\ UNCHANGED <<varsAlgebre, varsCube>>
    \/ FinRangees /\ UNCHANGED <<varsAlgebre, varsCube>>
    \/ (\E y \in suite : PaireSuivante(y)) /\ UNCHANGED <<varsAlgebre, varsCube>>
    \/ FinPaires /\ UNCHANGED <<varsAlgebre, varsCube>>
    \/ Resoudre /\ UNCHANGED <<varsAlgebre, varsCube>>
    \/ Tester /\ UNCHANGED <<varsAlgebre, varsCube>>
    \/ FinIteration_v11 /\ UNCHANGED <<varsAlgebre, varsCube>>
    \/ FinIteration_v12 /\ UNCHANGED <<varsAlgebre, varsCube>>
    \/ Retourner /\ UNCHANGED <<varsAlgebre, varsCube>>

SpecOrdre == InitOrdre /\ [][NextOrdre]_vars

(***************************************************************************)
(* resolution, applied to an integer triple and then to its own result.    *)
(***************************************************************************)
Composantes == (0 - MaxComp)..MaxComp

\* moteur.resolution(v)
AppliquerResolution(ver) ==
    /\ sigma[ver] = Nul
    /\ sigma' = [sigma EXCEPT ![ver] = resolution(ver, v)]
    /\ UNCHANGED <<v, sigma2>>

\* moteur.resolution(moteur.resolution(v))
ReappliquerResolution(ver) ==
    /\ sigma[ver] # Nul
    /\ sigma2[ver] = Nul
    /\ sigma2' = [sigma2 EXCEPT ![ver] = resolution(ver, sigma[ver])]
    /\ UNCHANGED <<v, sigma>>

InitAlgebre ==
    /\ DepartFermeture(0)
    /\ CubeAuRepos
    /\ v \in Composantes \X Composantes \X Composantes
    /\ sigma = [ver \in Versions |-> Nul]
    /\ sigma2 = [ver \in Versions |-> Nul]

NextAlgebre ==
    \/ \E ver \in Versions : AppliquerResolution(ver) /\ UNCHANGED <<varsFermeture, varsCube>>
    \/ \E ver \in Versions : ReappliquerResolution(ver) /\ UNCHANGED <<varsFermeture, varsCube>>

SpecAlgebre == InitAlgebre /\ [][NextAlgebre]_vars

(***************************************************************************)
(* analyser_cube_27.  v1.1 counts in two nested for loops, v1.2 sums 1     *)
(* over the generator `for p1 in cube for p2 in cube if ...`: the same     *)
(* traversal, p1 and p2 being positions in cube.  The ratio, a float in    *)
(* the code, is kept exact: v1.1 returns (valid / total) * 100 as the      *)
(* fraction <<numerator, denominator>>, v1.2 rounds it to two decimals,    *)
(* kept as a number of hundredths.                                         *)
(***************************************************************************)
\* range(3)
CubeCote == 3

\* list(product(range(3), repeat=3)): the last component varies fastest
generer_cube_27 ==
    [k \in 1..(CubeCote * CubeCote * CubeCote) |->
        << (k - 1) \div (CubeCote * CubeCote),
           ((k - 1) \div CubeCote) % CubeCote,
           (k - 1) % CubeCote >>]

\* return v1[1] == v2[0]
ancrage_valide(v1, v2) == v1[2] = v2[1]

\* round(x, 2) of the fraction num / den, in hundredths (ties to even)
round2(num, den) ==
    LET q == (num * 100) \div den
        r == (num * 100) % den
    IN  IF 2 * r < den THEN q
        ELSE IF 2 * r > den THEN q + 1
        ELSE IF q % 2 = 0 THEN q ELSE q + 1

\* mutant: the inner loop starts at p1, as the closure's does
debut_p2_triangle(i) == i

\* the position the inner loop starts from
debut_p2(i) == 1

\* cube = self.generer_cube_27(); the counter is 0; total = len(cube) ** 2
AppelCube ==
    /\ pc = "pret"
    /\ cube' = generer_cube_27
    /\ ancrages_valides' = 0
    /\ total_paires' = Len(cube') * Len(cube')
    /\ p1' = 1
    /\ p2' = debut_p2(1)
    /\ pc' = "p2"
    /\ UNCHANGED <<moteur, stats>>

\* one pair: if self.ancrage_valide(p1, p2): the counter gains 1
CompterPaire ==
    /\ pc = "p2"
    /\ p2 <= Len(cube)
    /\ ancrages_valides' = IF ancrage_valide(cube[p1], cube[p2])
                           THEN ancrages_valides + 1
                           ELSE ancrages_valides
    /\ p2' = p2 + 1
    /\ UNCHANGED <<moteur, pc, cube, p1, total_paires, stats>>

\* for p2 in cube is exhausted: the next p1
P1Suivant ==
    /\ pc = "p2"
    /\ p2 > Len(cube)
    /\ p1 < Len(cube)
    /\ p1' = p1 + 1
    /\ p2' = debut_p2(p1 + 1)
    /\ UNCHANGED <<moteur, pc, cube, ancrages_valides, total_paires, stats>>

\* both loops are exhausted
FinCube ==
    /\ pc = "p2"
    /\ p2 > Len(cube)
    /\ p1 >= Len(cube)
    /\ pc' = "return"
    /\ UNCHANGED <<moteur, cube, p1, p2, ancrages_valides, total_paires, stats>>

\* ratio = (valid / total) * 100; return {...}; v1.2 rounds the ratio
RetournerCube ==
    /\ pc = "return"
    /\ stats' = [stats EXCEPT ![moteur] =
                   [rendu |-> TRUE,
                    nombre_points |-> Len(cube),
                    total_paires |-> total_paires,
                    ancrages_valides |-> ancrages_valides,
                    ratio_percentage |->
                        IF moteur = "v11"
                        THEN <<ancrages_valides * 100, total_paires>>
                        ELSE round2(ancrages_valides * 100, total_paires)]]
    /\ IF moteur = "v11"
       THEN moteur' = "v12" /\ pc' = "pret"
       ELSE moteur' = moteur /\ pc' = "termine"
    /\ UNCHANGED <<cube, p1, p2, ancrages_valides, total_paires>>

localesFermeture == <<max_iterations, iteration, etats, historique, nouveaux,
                      reste, s1, suite, s2, hybrid, stable, retour>>

InitCube ==
    /\ DepartFermeture(0)
    /\ AlgebreAuRepos
    /\ CubeAuRepos

NextCube ==
    \/ AppelCube /\ UNCHANGED <<localesFermeture, varsAlgebre>>
    \/ CompterPaire /\ UNCHANGED <<localesFermeture, varsAlgebre>>
    \/ P1Suivant /\ UNCHANGED <<localesFermeture, varsAlgebre>>
    \/ FinCube /\ UNCHANGED <<localesFermeture, varsAlgebre>>
    \/ RetournerCube /\ UNCHANGED <<localesFermeture, varsAlgebre>>

SpecCube == InitCube /\ [][NextCube]_vars

(***************************************************************************)
(* Properties.                                                             *)
(***************************************************************************)
RECURSIVE Somme(_)
Somme(h) == IF h = <<>> THEN 0 ELSE h[1] + Somme(Tail(h))

\* the states known after n passes, every ordered pair of known states
\* being hybridised and resolved at each pass
RECURSIVE Fermeture(_, _)
Fermeture(ver, n) ==
    IF n <= 0 THEN EtatsDeBase
    ELSE LET S == Fermeture(ver, n - 1)
         IN  S \cup {resolution(ver, hybridation(x, y)) : x \in S, y \in S}

EnCours == pc \in {"for", "rangee", "paire", "resoudre", "tester", "fin", "return"}

\* C1 (as claimed): for max_iterations >= 0, every vector of the returned
\* state set satisfies s >= t + a, in both versions.
C1_RetourEquilibre ==
    \A ver \in Versions :
        (max_iterations >= 0 /\ retour[ver].rendu)
            => \A e \in retour[ver].etats : est_equilibre(e)

\* C2: within a call the known set only grows from one step to the next, it
\* holds the three base states at every step, and so does the returned set.
C2_CroissanceMonotone ==
    [][EnCours =>
          /\ EtatsDeBase \subseteq etats
          /\ etats \subseteq etats'
          /\ retour'[moteur].rendu => etats \subseteq retour'[moteur].etats]_vars

C2_Temoin ==
    /\ pc = "for"
    /\ moteur = "v12"
    /\ iteration >= 2
    /\ Cardinality(etats) > Cardinality(EtatsDeBase)
    /\ retour["v11"].rendu

C4_NegatifRejete ==
    max_iterations < 0 => \A ver \in Versions : ~ retour[ver].rendu

\* C4 (amended): a call with a negative max_iterations is not rejected; it
\* returns the empty history and the three base states, in both versions.
C4_NegatifRendLaBase ==
    \A ver \in Versions :
        (max_iterations < 0 /\ retour[ver].rendu) =>
            /\ retour[ver].historique = <<>>
            /\ retour[ver].etats = EtatsDeBase

C4_Temoin ==
    /\ max_iterations < 0
    /\ retour["v11"].rendu
    /\ retour["v12"].rendu

\* C5: whatever the order in which list(etats) yields the known states at
\* each pass, the returned state set is the same: the one set that depends
\* on max_iterations alone.  (retour changes only when a call returns, so
\* the states right after a return are the ones to look at.)
C5_IndependantDeLOrdre ==
    \A ver \in Versions :
        (retour[ver].rendu /\ pc \in {"pret", "termine"})
            => retour[ver].etats = Fermeture(ver, max_iterations)

C5_Temoin ==
    /\ max_iterations >= 1
    /\ retour["v11"].rendu
    /\ retour["v12"].rendu
    /\ s1 = M_SYNTHESE

\* C6: resolution(v) is (t, a, max(s, t + a)) in both versions: balanced,
\* t and a kept, s never lowered.
C6_ResolutionMax ==
    \A ver \in Versions :
        sigma[ver] # Nul =>
            /\ sigma[ver][1] = v[1]
            /\ sigma[ver][2] = v[2]
            /\ sigma[ver][3] \in {v[3], v[1] + v[2]}
            /\ sigma[ver][3] >= v[3]
            /\ sigma[ver][3] >= v[1] + v[2]
            /\ est_equilibre(sigma[ver])
            /\ Len(sigma[ver]) = Len(v)

C6_Temoin ==
    /\ sigma["v11"] # Nul
    /\ sigma["v12"] # Nul
    /\ v[3] < v[1] + v[2]

\* C7: resolution is idempotent in both versions.
C7_ResolutionIdempotente ==
    \A ver \in Versions : sigma2[ver] # Nul => sigma2[ver] = sigma[ver]

C7_Temoin ==
    /\ sigma2["v11"] # Nul
    /\ sigma2["v12"] # Nul
    /\ sigma["v12"] # v

\* C8: analyser_cube_27 reports 27 points, 729 pairs and 243 valid
\* anchorings, the number of ordered pairs (p1, p2) of the 27 distinct
\* points of {0,1,2}^3, self-pairs included, with p1[1] == p2[0].
C8_Cube ==
    \A ver \in Versions :
        stats[ver].rendu =>
            LET Points == {cube[k] : k \in 1..Len(cube)}
            IN  /\ stats[ver].nombre_points = 27
                /\ stats[ver].total_paires = 729
                /\ stats[ver].ancrages_valides = 243
                /\ Points = (0..2) \X (0..2) \X (0..2)
                /\ Cardinality(Points) = stats[ver].nombre_points
                /\ stats[ver].ancrages_valides =
                      Cardinality({pq \in Points \X Points : pq[1][2] = pq[2][1]})

C8_Temoin ==
    /\ stats["v11"].rendu
    /\ stats["v12"].rendu
    /\ pc = "termine"

\* C9: for max_iterations >= 0 the two versions return the same growth
\* history and the same state set.
C9_VersionsEquivalentes ==
    (max_iterations >= 0 /\ retour["v11"].rendu /\ retour["v12"].rendu)
        => /\ retour["v11"].historique = retour["v12"].historique
           /\ retour["v11"].etats = retour["v12"].etats

C9_Temoin ==
    /\ max_iterations >= 2
    /\ retour["v11"].rendu
    /\ retour["v12"].rendu
    /\ pc = "termine"

\* C10: every pass adds at least one state, so the early exit is never
\* taken and the returned history has exactly max_iterations entries
\* (the empty history and the three base states for 0).
C10_JamaisDePointFixe ==
    /\ pc = "fin" => nouveaux \ etats # {}
    /\ \A ver \in Versions :
          (max_iterations >= 0 /\ retour[ver].rendu) =>
              /\ Len(retour[ver].historique) = max_iterations
              /\ max_iterations = 0 =>
                    /\ retour[ver].historique = <<>>
                    /\ retour[ver].etats = EtatsDeBase

C10_Temoin ==
    /\ pc = "fin"
    /\ iteration >= 2
    /\ iteration + 1 = max_iterations
    /\ nouveaux # {}

=============================================================================
